---- MODULE Spec2Model ----
(***************************************************************************)
(* A model of phonecodes.py: the minimum-cost segmenting translator        *)
(* (translate_string), the tone/stress reattacher (attach_tones_to_vowels),*)
(* the post-processing reducer (_post_process_reduction with its two       *)
(* diagnostics), and convert with the registry of conversions              *)
(* (Phonecodes.as_member) and ipa2timit.                                   *)
(*                                                                         *)
(* A Python str is modelled as a sequence of one-character strings, so     *)
(* "ab" is <<"a", "b">> and "" is <<>>.  A Python list index i is the      *)
(* sequence index i + 1; the variables that hold Python indices (n, v, t)  *)
(* keep the Python values.                                                 *)
(***************************************************************************)
EXTENDS Integers, Sequences, FiniteSets, TLC

VARIABLES
    \* translate_string: its arguments, its locals and its position
    s, d, maxsym, lattice, n, tl, translated, pc,
    \* attach_tones_to_vowels: its arguments, its locals and its position;
    \* org records, for each element of ol, the elements of il it is made of
    \* and merges counts the merges done
    il, tones, vowels, searchstep, catdir, ol, v, t, apc, org, visited, abandoned,
    merges,
    \* _post_process_reduction: its arguments, its locals, the warnings it has
    \* emitted, the position of re.sub in input_string and the text re.sub has
    \* produced, and its position
    input_string, original_translation_mapping, reduction_mapping,
    cascading_keys, new_keys, warned, pos, out, rpc,
    \* convert and ipa2timit: the entry point called, its arguments, its locals,
    \* the stages that have run, the value returned and its position
    entry, s0, c0, c1, language, post_conversion_mapping, phonecode_enum,
    translation_mapping, conv_input_string, mapped_string, final_string,
    ran, result, cpc

tvars == <<s, d, maxsym, lattice, n, tl, translated, pc>>

avars == <<il, tones, vowels, searchstep, catdir, ol, v, t, apc, org, visited, abandoned,
           merges>>

rvars == <<input_string, original_translation_mapping, reduction_mapping,
           cascading_keys, new_keys, warned, pos, out, rpc>>

cvars == <<entry, s0, c0, c1, language, post_conversion_mapping, phonecode_enum,
           translation_mapping, conv_input_string, mapped_string, final_string,
           ran, result, cpc>>

vars == <<tvars, avars, rvars, cvars>>

(***************************************************************************)
(* Bounds of the model.                                                    *)
(***************************************************************************)
MaxLen == 3          \* longest input string of translate_string
MaxKeys == 3         \* most keys in a symbol table
MaxIl == 4           \* longest symbol list of attach_tones_to_vowels
MaxInput == 3        \* longest input string of _post_process_reduction
MaxRules == 2        \* most rules in an enumerated reduction map

(***************************************************************************)
(* Strings.                                                                *)
(***************************************************************************)
Strs(A, k) == UNION {[1..m -> A] : m \in 0..k}

Min(a, b) == IF a < b THEN a ELSE b

MaxOf(S) == CHOOSE x \in S : \A y \in S : y <= x

\* Python slice x[i:j] for 0 <= i <= j <= len(x)
Slice(x, i, j) == SubSeq(x, i + 1, j)

RECURSIVE Reverse(_)
Reverse(x) == IF x = <<>> THEN <<>> ELSE Append(Reverse(Tail(x)), Head(x))

(***************************************************************************)
(* translate_string(s, d)                                                  *)
(***************************************************************************)
symcost == 1
oovcost == 10

Alphabet == {"a", "b"}

\* candidate table keys (the empty key included: a dict may hold it)
KeyPool == Strs(Alphabet, 2) \cup {<<"a", "b", "a">>}

\* candidate table values: a deletion and a symbol
ValPool == {<<>>, <<"X">>}

Tables == UNION {[K -> ValPool] : K \in {K \in SUBSET KeyPool : Cardinality(K) <= MaxKeys}}

\* Relax without the cost comparison of line 184: the last matching key wins
RECURSIVE RelaxLastMatchWins(_, _, _, _, _, _, _)
RelaxLastMatchWins(str, tab, msym, lat, nn, m, cur) ==
    IF m >= Min(nn + 1, msym + 1)
    THEN cur
    ELSE LET key == Slice(str, nn - m, nn)
         IN RelaxLastMatchWins(str, tab, msym, lat, nn, m + 1,
                  IF key \in DOMAIN tab
                  THEN [cost |-> symcost + lat[nn - m + 1].cost, prev |-> nn - m,
                        sym |-> tab[key], hit |-> TRUE]
                  ELSE cur)

\* lines 183-190, the inner loop over m for one n: lat is lattice[0..n-1],
\* cur the current lattice[n]
RECURSIVE Relax(_, _, _, _, _, _, _)
Relax(str, tab, msym, lat, nn, m, cur) ==
    IF m >= Min(nn + 1, msym + 1)
    THEN cur
    ELSE LET key == Slice(str, nn - m, nn)
             better == key \in DOMAIN tab /\ symcost + lat[nn - m + 1].cost < cur.cost
         IN Relax(str, tab, msym, lat, nn, m + 1,
                  IF better
                  THEN [cost |-> symcost + lat[nn - m + 1].cost, prev |-> nn - m,
                        sym |-> tab[key], hit |-> TRUE]
                  ELSE cur)

\* line 181 followed by the inner loop
LatticeNode(str, tab, msym, lat, nn) ==
    Relax(str, tab, msym, lat, nn, 1,
          [cost |-> oovcost + lat[nn].cost, prev |-> nn - 1,
           sym |-> Slice(str, nn - 1, nn), hit |-> FALSE])

\* translate_string is not running
TranslateIdle ==
    /\ s = <<>>
    /\ d = <<>>
    /\ maxsym = 0
    /\ lattice = <<>>
    /\ n = 0
    /\ tl = <<>>
    /\ translated = <<>>
    /\ pc = "idle"

\* attach_tones_to_vowels is not running
AttachIdle ==
    /\ il = <<>>
    /\ tones = {}
    /\ vowels = {}
    /\ searchstep = 1
    /\ catdir = 0
    /\ ol = <<>>
    /\ v = 0
    /\ t = -1
    /\ apc = "idle"
    /\ org = <<>>
    /\ visited = {}
    /\ abandoned = {}
    /\ merges = 0

\* _post_process_reduction is not running
ReduceIdle ==
    /\ input_string = <<>>
    /\ original_translation_mapping = <<>>
    /\ reduction_mapping = <<>>
    /\ cascading_keys = <<>>
    /\ new_keys = {}
    /\ warned = <<>>
    /\ pos = 0
    /\ out = <<>>
    /\ rpc = "idle"

\* neither convert nor ipa2timit is running
ConvertIdle ==
    /\ entry = "none"
    /\ s0 = <<>>
    /\ c0 = ""
    /\ c1 = ""
    /\ language = ""
    /\ post_conversion_mapping = <<>>
    /\ phonecode_enum = <<>>
    /\ translation_mapping = <<>>
    /\ conv_input_string = <<>>
    /\ mapped_string = <<>>
    /\ final_string = <<>>
    /\ ran = <<>>
    /\ result = <<>>
    /\ cpc = "idle"

TranslateInit ==
    /\ AttachIdle
    /\ ReduceIdle
    /\ ConvertIdle
    /\ s \in Strs(Alphabet, MaxLen)
    /\ d \in Tables
    /\ maxsym = 0
    /\ lattice = <<>>
    /\ n = 0
    /\ tl = <<>>
    /\ translated = <<>>
    /\ pc = "start"

\* lines 173-178; max() of an empty sequence raises ValueError
TranslateStart ==
    /\ pc = "start"
    /\ IF DOMAIN d = {}
       THEN /\ pc' = "raised"
            /\ UNCHANGED <<maxsym, lattice, n>>
       ELSE /\ maxsym' = MaxOf({Len(k) : k \in DOMAIN d})
            /\ lattice' = <<[cost |-> 0, prev |-> 0, sym |-> <<>>, hit |-> TRUE]>>
            /\ n' = 1
            /\ pc' = "fill"
    /\ UNCHANGED <<s, d, tl, translated, avars, rvars, cvars>>

\* lines 179-190, one iteration of the loop over n
TranslateFill ==
    /\ pc = "fill"
    /\ n <= Len(s)
    /\ lattice' = Append(lattice, LatticeNode(s, d, maxsym, lattice, n))
    /\ n' = n + 1
    /\ UNCHANGED <<s, d, maxsym, tl, translated, pc, avars, rvars, cvars>>

\* lines 192-194
TranslateBacktrace ==
    /\ pc = "fill"
    /\ n > Len(s)
    /\ tl' = <<>>
    /\ translated' = <<>>
    /\ n' = Len(s)
    /\ pc' = "trace"
    /\ UNCHANGED <<s, d, maxsym, lattice, avars, rvars, cvars>>

\* the back-trace stepping one character back instead of following lattice[n][1]
TranslateTraceOneBack ==
    /\ pc = "trace"
    /\ n > 0
    /\ tl' = Append(tl, lattice[n + 1].sym)
    /\ translated' = Append(translated, lattice[n + 1].hit)
    /\ n' = n - 1
    /\ UNCHANGED <<s, d, maxsym, lattice, pc, avars, rvars, cvars>>

\* lines 195-198, one iteration of the back-trace
TranslateTrace ==
    /\ pc = "trace"
    /\ n > 0
    /\ tl' = Append(tl, lattice[n + 1].sym)
    /\ translated' = Append(translated, lattice[n + 1].hit)
    /\ n' = lattice[n + 1].prev
    /\ UNCHANGED <<s, d, maxsym, lattice, pc, avars, rvars, cvars>>

\* line 199
TranslateReturn ==
    /\ pc = "trace"
    /\ n = 0
    /\ tl' = Reverse(tl)
    /\ translated' = Reverse(translated)
    /\ pc' = "done"
    /\ UNCHANGED <<s, d, maxsym, lattice, n, avars, rvars, cvars>>

TranslateNext ==
    \/ TranslateStart
    \/ TranslateFill
    \/ TranslateBacktrace
    \/ TranslateTrace
    \/ TranslateReturn

SpecTranslate == TranslateInit /\ [][TranslateNext]_vars

(***************************************************************************)
(* translate_string on long strings: one untranslatable character costs    *)
(* oovcost, as much as oovcost translated symbols, so the two only compete *)
(* on strings longer than oovcost.                                         *)
(***************************************************************************)
LongRun == 12        \* longest run of one character in a long input string

\* the character c, k times
Run(c, k) == [i \in 1..k |-> c]

\* keys for the long strings: two that start with "b", the single "a", and
\* the whole run of "a"
LongKeyPool == {<<"b", "a">>, <<"b">>, <<"a">>, Run("a", LongRun)}

LongTables == {[k \in K |-> <<"X">>] : K \in SUBSET LongKeyPool \ {{}}}

\* "b" followed by a run of "a"
LongStrings == {<<"b">> \o Run("a", k) : k \in 0..LongRun}

TranslateLongInit ==
    /\ AttachIdle
    /\ ReduceIdle
    /\ ConvertIdle
    /\ s \in LongStrings
    /\ d \in LongTables
    /\ maxsym = 0
    /\ lattice = <<>>
    /\ n = 0
    /\ tl = <<>>
    /\ translated = <<>>
    /\ pc = "start"

SpecTranslateLong == TranslateLongInit /\ [][TranslateNext]_vars

(***************************************************************************)
(* Decompositions of a string, enumerated independently of the lattice.    *)
(***************************************************************************)
\* the compositions of k: the sequences of positive segment lengths summing to k
RECURSIVE Comps(_)
Comps(k) == IF k = 0 THEN {<<>>}
            ELSE UNION {{<<m>> \o c : c \in Comps(k - m)} : m \in 1..k}

RECURSIVE SumSeq(_)
SumSeq(x) == IF x = <<>> THEN 0 ELSE Head(x) + SumSeq(Tail(x))

\* the i-th segment of str under the composition c
Segment(str, c, i) ==
    LET start == SumSeq(SubSeq(c, 1, i - 1)) IN Slice(str, start, start + c[i])

\* a segment is usable as a table key or as a single untranslatable character
SegOk(tab, seg) == seg \in DOMAIN tab \/ Len(seg) = 1

SegCost(tab, seg) == IF seg \in DOMAIN tab THEN symcost ELSE oovcost

ValidComps(str, tab, k) ==
    {c \in Comps(k) : \A i \in 1..Len(c) : SegOk(tab, Segment(str, c, i))}

RECURSIVE CompCost(_, _, _, _)
CompCost(str, tab, c, i) ==
    IF i > Len(c) THEN 0
    ELSE SegCost(tab, Segment(str, c, i)) + CompCost(str, tab, c, i + 1)

MinCost(str, tab, k) ==
    LET costs == {CompCost(str, tab, c, 1) : c \in ValidComps(str, tab, k)}
    IN CHOOSE x \in costs : \A y \in costs : x <= y

RECURSIVE FlagCost(_)
FlagCost(flags) ==
    IF flags = <<>> THEN 0
    ELSE (IF Head(flags) THEN symcost ELSE oovcost) + FlagCost(Tail(flags))

\* C1: every cost recorded in the lattice is the minimum cost over all
\* decompositions of that prefix into table keys (cost 1) and single
\* untranslatable characters (cost 10), and the decomposition that the
\* back-trace returns has the minimum cost of the whole string; table
\* {"ab": "X"} and input "ab" give ["X"], flagged as translated.
TranslateMinCost ==
    /\ pc \in {"fill", "trace", "done"} =>
           \A k \in 0..(Len(lattice) - 1) : lattice[k + 1].cost = MinCost(s, d, k)
    /\ pc = "done" => FlagCost(translated) = MinCost(s, d, Len(s))
    /\ (pc = "done" /\ s = <<"a", "b">> /\ DOMAIN d = {<<"a", "b">>}) =>
           (tl = <<d[<<"a", "b">>]>> /\ translated = <<TRUE>>)

\* a finished translation in which a two-character key beat two misses
TranslateMinCostWitness ==
    /\ pc = "done"
    /\ s = <<"a", "b">>
    /\ d = (<<"a", "b">> :> <<"X">>)
    /\ tl = <<<<"X">>>>
    /\ translated = <<TRUE>>
    /\ lattice[3].cost = 1

\* C2: the two returned sequences have equal length; the emitted symbols
\* correspond, left to right, to contiguous non-empty segments of s that
\* concatenate to s; a symbol flagged True is the table value of its segment,
\* which is a key, and a symbol flagged False is its segment, a single
\* character of s.
TranslateSegments ==
    pc = "done" =>
        /\ Len(tl) = Len(translated)
        /\ \E c \in Comps(Len(s)) :
              /\ Len(c) = Len(tl)
              /\ \A i \in 1..Len(c) :
                    LET seg == Segment(s, c, i)
                    IN IF translated[i]
                       THEN seg \in DOMAIN d /\ tl[i] = d[seg]
                       ELSE Len(seg) = 1 /\ tl[i] = seg

\* a finished translation that mixes a hit on a two-character key with a miss
TranslateSegmentsWitness ==
    /\ pc = "done"
    /\ Len(s) = 3
    /\ Len(tl) = 2
    /\ \E i, j \in 1..2 : translated[i] /\ ~translated[j]

\* C3 as stated: translate_string never raises; with an empty table every
\* character comes back as itself, flagged as not translated; the empty
\* input gives two empty sequences.
TranslateNeverFails ==
    /\ pc # "raised"
    /\ (pc = "done" /\ DOMAIN d = {}) =>
           /\ tl = [i \in 1..Len(s) |-> <<s[i]>>]
           /\ translated = [i \in 1..Len(s) |-> FALSE]
    /\ (pc = "done" /\ s = <<>>) => (tl = <<>> /\ translated = <<>>)

\* a decomposition's number of untranslatable symbols and number of symbols
Tally(miss, syms) == [miss |-> miss, syms |-> syms]

\* fewer untranslatable symbols, or as many and fewer symbols
TallyLess(a, b) == a.miss < b.miss \/ (a.miss = b.miss /\ a.syms < b.syms)

\* the least tally, in that order, of the decompositions of each prefix of str
\* into keys of tab and single characters, from the tallies acc of the shorter
\* prefixes: acc[j + 1] is the least tally of str[0:j]
RECURSIVE BestTallies(_, _, _)
BestTallies(str, tab, acc) ==
    IF Len(acc) > Len(str) THEN acc
    ELSE LET i == Len(acc)
             cands == {Tally(acc[i].miss + 1, acc[i].syms + 1)} \cup
                      {Tally(acc[j + 1].miss, acc[j + 1].syms + 1) :
                           j \in {k \in 0..(i - 1) : Slice(str, k, i) \in DOMAIN tab}}
         IN BestTallies(str, tab,
                        Append(acc, CHOOSE c \in cands : \A e \in cands : ~TallyLess(e, c)))

BestTally(str, tab) == BestTallies(str, tab, <<Tally(0, 0)>>)[Len(str) + 1]

\* the number of untranslated symbols of a returned flag list
Misses(flags) == Cardinality({i \in 1..Len(flags) : ~flags[i]})

\* C14: the decomposition translate_string returns has the least number of
\* untranslatable symbols among the decompositions of s into table keys and
\* single characters and, among those with that number, the least number of
\* symbols.
TranslateMinMissesThenSymbols ==
    pc = "done" =>
        LET least == BestTally(s, d)
        IN /\ Misses(translated) = least.miss
           /\ Len(tl) = least.syms

(***************************************************************************)
(* attach_tones_to_vowels(il, tones, vowels, searchstep, catdir)           *)
(***************************************************************************)
\* candidate elements: a vowel, a tone mark, a consonant, a vowel with a
\* diacritic, and the empty symbol that a deleting table entry emits
ElemPool == {<<"a">>, <<"1">>, <<"k">>, <<"a", "k">>, <<>>}

\* candidate tone collections: none, a plain tone, a tone that is also a
\* vowel, a tone spelled like a prepended merge, and the members of the
\* str "1" (as x in "1" holds for x = "" and x = "1")
ToneSets == { {}, {<<"1">>}, {<<"1">>, <<"a">>}, {<<"a">>},
              {<<"1">>, <<"1", "a">>}, {<<>>, <<"1">>} }

VowelSets == {{<<"a">>}, {<<"a">>, <<"1">>}}

\* line 214 left out: the merged tone stays in the list
RemoveAtKept(x, i) == x

\* ol[0:i] + ol[(i + 1):], line 214
RemoveAt(x, i) == SubSeq(x, 1, i) \o SubSeq(x, i + 2, Len(x))

\* line 212 without the vowel test: any element takes the pending tone
MergeCondAnyElement(x, vv, tt, vs) == tt >= 0

\* the condition of line 212
MergeCond(x, vv, tt, vs) ==
    /\ \/ x[vv + 1] \in vs
       \/ Len(x[vv + 1]) > 1 /\ <<x[vv + 1][1]>> \in vs
    /\ tt >= 0

\* line 213 with catdir > 0 in place of catdir >= 0
MergedSymbolStrict(vowel, tone, cd) ==
    IF cd > 0 THEN vowel \o tone ELSE tone \o vowel

\* line 213
MergedSymbol(vowel, tone, cd) ==
    IF cd >= 0 THEN vowel \o tone ELSE tone \o vowel

AttachInit ==
    /\ TranslateIdle
    /\ ReduceIdle
    /\ ConvertIdle
    /\ il \in Strs(ElemPool, MaxIl)
    /\ tones \in ToneSets
    /\ vowels \in VowelSets
    /\ searchstep \in {-1, 1}
    /\ catdir \in {-1, 0}
    /\ ol = <<>>
    /\ v = 0
    /\ t = -1
    /\ apc = "start"
    /\ org = <<>>
    /\ visited = {}
    /\ abandoned = {}
    /\ merges = 0

\* lines 208-210
AttachStart ==
    /\ apc = "start"
    /\ ol' = il
    /\ v' = IF searchstep > 0 THEN 0 ELSE Len(il) - 1
    /\ t' = -1
    /\ org' = [i \in 1..Len(il) |-> [host |-> i - 1, idx |-> <<i - 1>>]]
    /\ apc' = "loop"
    /\ UNCHANGED <<il, tones, vowels, searchstep, catdir, visited, abandoned, merges, tvars, rvars, cvars>>

\* lines 211-215 when the condition of line 212 holds
AttachMerge ==
    /\ apc = "loop"
    /\ 0 <= v /\ v < Len(ol)
    /\ MergeCond(ol, v, t, vowels)
    /\ ol' = RemoveAt([ol EXCEPT ![v + 1] = MergedSymbol(ol[v + 1], ol[t + 1], catdir)], t)
    /\ org' = RemoveAt([org EXCEPT ![v + 1] =
                           [host |-> org[v + 1].host,
                            idx |-> MergedSymbol(org[v + 1].idx, org[t + 1].idx, catdir)]], t)
    /\ t' = -1
    /\ visited' = visited \cup {org[v + 1].host}
    /\ merges' = merges + 1
    /\ apc' = "mark"
    /\ UNCHANGED <<il, tones, vowels, searchstep, catdir, v, abandoned, tvars, rvars, cvars>>

\* lines 211-212 when the condition of line 212 fails
AttachNoMerge ==
    /\ apc = "loop"
    /\ 0 <= v /\ v < Len(ol)
    /\ ~MergeCond(ol, v, t, vowels)
    /\ visited' = visited \cup {org[v + 1].host}
    /\ apc' = "mark"
    /\ UNCHANGED <<il, tones, vowels, searchstep, catdir, ol, v, t, org, abandoned, merges, tvars, rvars, cvars>>

\* lines 216-217 keeping a tone that is already pending
AttachMarkKeepFirst ==
    /\ apc = "mark"
    /\ t' = IF v < Len(ol) /\ ol[v + 1] \in tones /\ t < 0 THEN v ELSE t
    /\ v' = v + searchstep
    /\ apc' = "loop"
    /\ UNCHANGED <<il, tones, vowels, searchstep, catdir, ol, org, visited, abandoned, merges, tvars, rvars, cvars>>

\* lines 216-218
AttachMark ==
    /\ apc = "mark"
    /\ t' = IF v < Len(ol) /\ ol[v + 1] \in tones THEN v ELSE t
    /\ abandoned' = IF v < Len(ol) /\ ol[v + 1] \in tones /\ t >= 0 /\ t # v
                     THEN abandoned \cup {org[t + 1]}
                     ELSE abandoned
    /\ v' = v + searchstep
    /\ apc' = "loop"
    /\ UNCHANGED <<il, tones, vowels, searchstep, catdir, ol, org, visited, merges, tvars, rvars, cvars>>

\* lines 211 and 219: the loop ends
AttachReturn ==
    /\ apc = "loop"
    /\ ~(0 <= v /\ v < Len(ol))
    /\ apc' = "done"
    /\ UNCHANGED <<il, tones, vowels, searchstep, catdir, ol, v, t, org, visited, abandoned, merges, tvars, rvars, cvars>>

AttachNext ==
    \/ AttachStart
    \/ AttachMerge
    \/ AttachNoMerge
    \/ AttachMark
    \/ AttachReturn

SpecAttach == AttachInit /\ [][AttachNext]_vars

(***************************************************************************)
(* attach_tones_to_vowels with any searchstep and catdir, not only the     *)
(* ones of _tone_stress_settings.                                          *)
(***************************************************************************)
MaxIlAny == 3        \* longest symbol list when searchstep and catdir are free
MaxStep == 2         \* largest searchstep and catdir, in absolute value

AttachAnyInit ==
    /\ TranslateIdle
    /\ ReduceIdle
    /\ ConvertIdle
    /\ il \in Strs(ElemPool, MaxIlAny)
    /\ tones \in ToneSets
    /\ vowels \in VowelSets
    /\ searchstep \in (-MaxStep)..MaxStep
    /\ catdir \in {-1, 0, 1}
    /\ ol = <<>>
    /\ v = 0
    /\ t = -1
    /\ apc = "start"
    /\ org = <<>>
    /\ visited = {}
    /\ abandoned = {}
    /\ merges = 0

SpecAttachAny == AttachAnyInit /\ [][AttachNext]_vars

(***************************************************************************)
(* Properties of attach_tones_to_vowels.                                   *)
(***************************************************************************)
\* a vowel element: a member of the vowel set, or longer than one character
\* with its first character in the vowel set
IsVowelElem(e) == e \in vowels \/ (Len(e) > 1 /\ <<e[1]>> \in vowels)

\* the scan is at its loop head on a vowel element while a tone is pending
VowelReachedWithPendingTone ==
    /\ apc = "loop"
    /\ 0 <= v /\ v < Len(ol)
    /\ IsVowelElem(ol[v + 1])
    /\ t >= 0

\* j comes after i in the scan direction
After(j, i) == IF searchstep > 0 THEN j > i ELSE j < i

\* element i of il has a tone merged into it
ReceivedTone(i) == \E p \in 1..Len(org) : org[p].host = i /\ Len(org[p].idx) > 1

\* element i of il is in ol as its own element
Standalone(i) ==
    \E p \in 1..Len(org) : org[p] = [host |-> i, idx |-> <<i>>] /\ ol[p] = il[i + 1]

\* the surviving elements are in the order they have in il
OrderKept == \A p, q \in 1..Len(org) : p < q => org[p].host < org[q].host

\* C4, the step: visiting a vowel element while a tone is pending makes the
\* vowel element vowel+tone (catdir >= 0) or tone+vowel (catdir < 0), removes
\* the standalone tone element, keeps every other element, and clears the
\* pending marker.
AttachMergeStep ==
    VowelReachedWithPendingTone =>
        /\ t' = -1
        /\ Len(ol') = Len(ol) - 1
        /\ LET vp == IF t < v THEN v - 1 ELSE v
           IN ol'[vp + 1] = IF catdir >= 0 THEN ol[v + 1] \o ol[t + 1]
                                           ELSE ol[t + 1] \o ol[v + 1]
        /\ \A j \in (0..(Len(ol) - 1)) \ {t, v} :
              ol'[(IF j > t THEN j - 1 ELSE j) + 1] = ol[j + 1]

\* C4, the consequence: the pending tone is a tone element with no vowel
\* element between it and the scan position, so the vowel it is merged into
\* is the first vowel visited after it.
PendingToneBeforeFirstVowel ==
    (apc = "loop" /\ t >= 0) =>
        /\ t < Len(ol) /\ ol[t + 1] \in tones
        /\ After(v, t)
        /\ \A j \in 0..(Len(ol) - 1) : (After(j, t) /\ After(v, j)) => ~IsVowelElem(ol[j + 1])

\* C4, the example: a backward scan with prepend turns [..., V, T, ...] into
\* [..., T+V, ...] (T a tone that is no vowel element, T+V no tone).
BackwardPrependExample ==
    (apc = "done" /\ searchstep < 0 /\ catdir < 0) =>
        \A i \in 0..(Len(il) - 2) :
            (/\ IsVowelElem(il[i + 1])
             /\ il[i + 2] \in tones
             /\ ~IsVowelElem(il[i + 2])
             /\ (il[i + 2] \o il[i + 1]) \notin tones)
            => \E p \in 1..Len(ol) :
                  /\ org[p] = [host |-> i, idx |-> <<i + 1, i>>]
                  /\ ol[p] = il[i + 2] \o il[i + 1]

\* C4: a vowel element visited while a tone is pending takes the tone on the
\* side catdir names, the tone element is removed and the marker cleared; the
\* tone merged is merged into the first vowel visited after it.
AttachMergesPendingTone ==
    /\ [][AttachMergeStep]_vars
    /\ []PendingToneBeforeFirstVowel
    /\ []BackwardPrependExample

\* a backward scan with prepend has just merged the stress mark into the vowel
AttachMergeWitness ==
    /\ apc = "mark"
    /\ searchstep < 0 /\ catdir < 0
    /\ t = -1
    /\ il = <<<<"k">>, <<"a">>, <<"1">>, <<"k">>>>
    /\ ol = <<<<"k">>, <<"1", "a">>, <<"k">>>>

\* no vowel element was visited after element i of il
NoVowelVisitedAfter(i) ==
    \A j \in visited : After(j, i) => ~IsVowelElem(il[j + 1])

\* C5 as stated: every tone element with no vowel element visited after it is
\* in the output as its own element, in its original relative position.
UnattachedToneKept ==
    apc = "done" =>
        /\ \A i \in 0..(Len(il) - 1) :
              (il[i + 1] \in tones /\ NoVowelVisitedAfter(i)) => Standalone(i)
        /\ OrderKept

\* C5 amended: a tone element with no vowel element visited after it, and
\* that did not itself receive a pending tone as a vowel element, is in the
\* output as its own element, in its original relative position.
UnattachedPlainToneKept ==
    apc = "done" =>
        /\ \A i \in 0..(Len(il) - 1) :
              (il[i + 1] \in tones /\ NoVowelVisitedAfter(i) /\ ~ReceivedTone(i))
              => Standalone(i)
        /\ OrderKept

\* the scan ended with a tone still pending after an earlier tone was merged
UnattachedToneWitness ==
    /\ apc = "done"
    /\ t >= 0
    /\ Len(ol) < Len(il)
    /\ \E i \in 0..(Len(il) - 1) :
          /\ il[i + 1] \in tones
          /\ ~IsVowelElem(il[i + 1])
          /\ NoVowelVisitedAfter(i)
          /\ org[t + 1].host = i
          /\ Standalone(i)

\* C6, the step: a tone element met while a tone is pending takes the marker
SecondToneOverwrites ==
    (apc = "mark" /\ t >= 0 /\ v < Len(ol) /\ ol[v + 1] \in tones) => t' = v

\* C6, the consequence: a tone that lost the marker is still its own element
\* of ol, unchanged, and the order of the elements is kept
AbandonedToneStays ==
    /\ \A r \in abandoned : \E p \in 1..Len(org) : org[p] = r
    /\ apc \in {"loop", "mark", "done"} => OrderKept

\* C6: there is one pending marker; a second tone met before any vowel takes
\* it, the earlier tone stays where it is as its own element and is never
\* merged, and the tone merged into the next vowel is the later one.
AttachOnePendingTone ==
    /\ [][SecondToneOverwrites]_vars
    /\ []AbandonedToneStays
    /\ [](t >= -1 /\ t < Len(ol) + 1)

\* a tone lost the marker to a later tone, and the later tone was merged
AttachOnePendingToneWitness ==
    /\ apc = "done"
    /\ abandoned # {}
    /\ Len(ol) < Len(il)
    /\ \A r \in abandoned : Len(r.idx) = 1 /\ Standalone(r.host)

\* the total number of characters of a list of symbols
RECURSIVE SumLen(_)
SumLen(x) == IF x = <<>> THEN 0 ELSE Len(Head(x)) + SumLen(Tail(x))

\* the elements of il at the indices idx, concatenated
RECURSIVE ConcatOf(_)
ConcatOf(idx) == IF idx = <<>> THEN <<>> ELSE il[Head(idx) + 1] \o ConcatOf(Tail(idx))

\* the places of ol that element i of il has gone to
PlacesOf(i) ==
    {pk \in (1..Len(org)) \X (1..Len(il)) :
         pk[2] <= Len(org[pk[1]].idx) /\ org[pk[1]].idx[pk[2]] = i}

\* the list x without its elements at the Python indices i and j
WithoutTwo(x, i, j) ==
    IF i = j THEN RemoveAt(x, i)
    ELSE IF i < j THEN RemoveAt(RemoveAt(x, j), i)
    ELSE RemoveAt(RemoveAt(x, i), j)

\* C15, the list: ol has len(il) minus the number of merges elements; every
\* element of il is in ol exactly once, on its own or inside one merged
\* element; every element of ol is the concatenation of the elements of il
\* it is made of, so an element nothing was merged into has its content; the
\* elements are in the order they have in il; and the characters are as many
\* as in il.
AttachConservesState ==
    apc \in {"loop", "mark", "done"} =>
        /\ Len(ol) = Len(il) - merges
        /\ Len(org) = Len(ol)
        /\ \A i \in 0..(Len(il) - 1) : Cardinality(PlacesOf(i)) = 1
        /\ \A p \in 1..Len(ol) : ol[p] = ConcatOf(org[p].idx)
        /\ \A p \in 1..Len(ol) : Len(org[p].idx) = 1 => ol[p] = il[org[p].host + 1]
        /\ OrderKept
        /\ SumLen(ol) = SumLen(il)

\* C15, the step: il is never changed, and after the copy ol only changes by
\* a merge, which takes away one element, a tone element, and puts its
\* content into a vowel element that has not received a tone before, all the
\* other elements staying as they are and where they are.
AttachConservesStep ==
    /\ il' = il
    /\ (apc # "start" /\ ol' = ol) => merges' = merges
    /\ (apc # "start" /\ ol' # ol) =>
          /\ apc = "loop" /\ 0 <= v /\ v < Len(ol) /\ t >= 0 /\ t < Len(ol)
          /\ t # v
          /\ ol[t + 1] \in tones
          /\ IsVowelElem(ol[v + 1])
          /\ org[v + 1].idx = <<org[v + 1].host>>
          /\ merges' = merges + 1
          /\ Len(ol') = Len(ol) - 1
          /\ LET q == IF t < v THEN v - 1 ELSE v
             IN /\ ol'[q + 1] \in {ol[v + 1] \o ol[t + 1], ol[t + 1] \o ol[v + 1]}
                /\ RemoveAt(ol', q) = WithoutTwo(ol, v, t)

\* C15 as stated, for every searchstep: attach_tones_to_vowels neither loses
\* nor duplicates material and does not modify its argument.
AttachConservesAlways ==
    []AttachConservesState /\ [][AttachConservesStep]_vars

\* C15 for every searchstep other than 0: attach_tones_to_vowels neither
\* loses nor duplicates material and does not modify its argument: il is
\* unchanged, the output has len(il) minus the number of merges elements, the
\* only elements removed are tone elements merged into a vowel element, each
\* vowel element receives at most one tone, all other elements keep their
\* content and relative order, and the character count is that of the input.
AttachConservesNonZeroStep ==
    /\ [](searchstep # 0 => AttachConservesState)
    /\ [][searchstep # 0 => AttachConservesStep]_vars

\* a scan that skips every other element has ended after merging a tone
\* into a vowel element
AttachConservesWitness ==
    /\ apc = "done"
    /\ searchstep \in {-MaxStep, MaxStep}
    /\ tones = {<<"1">>}
    /\ merges >= 1
    /\ Len(il) = MaxIlAny
    /\ \E p \in 1..Len(ol) : ol[p] \in {<<"a", "1">>, <<"1", "a">>}

(***************************************************************************)
(* _post_process_reduction(input_string, original_translation_mapping,     *)
(* reduction_mapping) and its two diagnostics.                             *)
(*                                                                         *)
(* A dict is ordered by insertion: reduction_mapping is a sequence of      *)
(* rules [k |-> key, v |-> value] with distinct keys.  The keys are        *)
(* symbols, that is non-empty strings; the empty map is included.          *)
(***************************************************************************)
Rule(key, val) == [k |-> key, v |-> val]

RAlphabet == {"a", "b"}

RKeyPool == {<<"a">>, <<"b">>, <<"a", "b">>}

RValPool == {<<>>, <<"b">>, <<"x">>}

\* the sequences of at most k distinct keys
KeySeqs(k) == {ks \in Strs(RKeyPool, k) : \A i, j \in 1..Len(ks) : i # j => ks[i] # ks[j]}

EnumeratedMaps ==
    UNION {{[i \in 1..Len(ks) |-> Rule(ks[i], vs[i])] : vs \in [1..Len(ks) -> RValPool]}
           : ks \in KeySeqs(MaxRules)}

\* the reduction maps of test_phonecodes.py lines 121-127, 219 and 234 and
\* of the cascade examples, with a key that is regular-expression syntax
ExampleMaps ==
    { <<Rule(<<"a">>, <<"b">>), Rule(<<"b">>, <<"c">>)>>,
      <<Rule(<<"a">>, <<"x">>), Rule(<<"b">>, <<"y">>), Rule(<<"a", "b">>, <<"z">>)>>,
      <<Rule(<<"a">>, <<"b">>), Rule(<<"b", "c">>, <<"d">>)>>,
      <<Rule(<<"a">>, <<"b">>), Rule(<<"b", "c">>, <<"a">>)>>,
      <<Rule(<<"a">>, <<"x">>), Rule(<<"b">>, <<"y">>)>>,
      <<Rule(<<".">>, <<"x">>), Rule(<<"a">>, <<"b">>)>>,
      <<Rule(<<"a">>, <<"b">>), Rule(<<"b">>, <<"b">>), Rule(<<"a", "b">>, <<"x">>)>> }

ExampleInputs == {<<"a", "b", "c">>, <<"a", ".">>}

\* original tables, which only the extra-key check reads
OriginalTables ==
    { <<>>,
      (<<"A">> :> <<"a">>),
      (<<"A">> :> <<"a">>) @@ (<<"B">> :> <<"b">>) @@ (<<"z">> :> <<"a", "b">>) }

\* Python's x in y for two strings
IsSubstring(x, y) ==
    \E i \in 0..(Len(y) - Len(x)) : Slice(y, i, i + Len(x)) = x

\* lines 407-409, the loop over k2 = ordered_keys[j - 1] for j - 1 >= i + 1
RECURSIVE CascadeInner(_, _, _, _)
CascadeInner(m, i, j, acc) ==
    IF j > Len(m) THEN acc
    ELSE CascadeInner(m, i, j + 1,
                      IF IsSubstring(m[i].v, m[j].k)
                      THEN Append(acc, <<m[i].k, m[j].k>>)
                      ELSE acc)

\* lines 400-409 without the skip of empty values of lines 404-405
RECURSIVE CascadeOuterNoSkip(_, _, _)
CascadeOuterNoSkip(m, i, acc) ==
    IF i > Len(m) - 1 THEN acc
    ELSE CascadeOuterNoSkip(m, i + 1, CascadeInner(m, i, i + 1, acc))

\* lines 400-409, the loop over k1 = ordered_keys[i - 1] in ordered_keys[:-1]
RECURSIVE CascadeOuter(_, _, _)
CascadeOuter(m, i, acc) ==
    IF i > Len(m) - 1 THEN acc
    ELSE CascadeOuter(m, i + 1,
                      IF m[i].v = <<>> THEN acc ELSE CascadeInner(m, i, i + 1, acc))

\* _find_cascading_keys_in_symbol_mapping with every value checked
FindCascadingKeysNoSkip(m) == CascadeOuterNoSkip(m, 1, <<>>)

\* _find_cascading_keys_in_symbol_mapping
FindCascadingKeys(m) == CascadeOuter(m, 1, <<>>)

\* _get_extra_reduction_keys
GetExtraReductionKeys(orig, m) ==
    {m[i].k : i \in 1..Len(m)} \ {orig[key] : key \in DOMAIN orig}

\* the key matches str at position q, as the escaped literal of line 384 does
MatchesAt(str, key, q) ==
    q + Len(key) <= Len(str) /\ Slice(str, q, q + Len(key)) = key

\* an alternation that prefers the longest matching key
LongestRuleAt(m, str, q) ==
    LET hits == {i \in 1..Len(m) : MatchesAt(str, m[i].k, q)}
    IN IF hits = {} THEN 0
       ELSE CHOOSE i \in hits : \A j \in hits :
                Len(m[j].k) < Len(m[i].k) \/ (Len(m[j].k) = Len(m[i].k) /\ i <= j)

\* the alternation k1|k2|... of line 384 at position q: the first alternative
\* that matches, 0 when none does
FirstRuleAt(m, str, q) ==
    LET hits == {i \in 1..Len(m) : MatchesAt(str, m[i].k, q)}
    IN IF hits = {} THEN 0 ELSE CHOOSE i \in hits : \A j \in hits : i <= j

\* re.sub's search from position p: the leftmost position with a match, -1
\* when there is none
NextMatchPos(m, str, p) ==
    LET qs == {q \in p..Len(str) : FirstRuleAt(m, str, q) # 0}
    IN IF qs = {} THEN -1 ELSE CHOOSE q \in qs : \A r \in qs : q <= r

\* the replacement of a match that is replaced again when it is itself a key
ReplacementCascading(m, i) ==
    LET again == {j \in 1..Len(m) : m[j].k = m[i].v}
    IN IF again = {} THEN m[i].v ELSE m[CHOOSE j \in again : TRUE].v

\* the lambda of line 386 for a match of rule i
Replacement(m, i) == m[i].v

ReduceInit ==
    /\ TranslateIdle
    /\ AttachIdle
    /\ ConvertIdle
    /\ input_string \in Strs(RAlphabet, MaxInput) \cup ExampleInputs
    /\ original_translation_mapping \in OriginalTables
    /\ reduction_mapping \in EnumeratedMaps \cup ExampleMaps
    /\ cascading_keys = <<>>
    /\ new_keys = {}
    /\ warned = <<>>
    /\ pos = 0
    /\ out = <<>>
    /\ rpc = "start"

\* lines 372-376
ReduceCascadeCheck ==
    /\ rpc = "start"
    /\ cascading_keys' = FindCascadingKeys(reduction_mapping)
    /\ warned' = IF Len(cascading_keys') > 0 THEN Append(warned, "cascading") ELSE warned
    /\ rpc' = "extra"
    /\ UNCHANGED <<input_string, original_translation_mapping, reduction_mapping,
                   new_keys, pos, out, tvars, avars, cvars>>

\* lines 378-380
ReduceExtraKeyCheck ==
    /\ rpc = "extra"
    /\ new_keys' = GetExtraReductionKeys(original_translation_mapping, reduction_mapping)
    /\ warned' = IF new_keys' # {} THEN Append(warned, "extra") ELSE warned
    /\ rpc' = "sub"
    /\ UNCHANGED <<input_string, original_translation_mapping, reduction_mapping,
                   cascading_keys, pos, out, tvars, avars, cvars>>

\* lines 384-386 with an empty map: the pattern is "", it matches the empty
\* string at position 0, and the lambda looks up "" in the map: KeyError
ReduceSubEmptyPattern ==
    /\ rpc = "sub"
    /\ Len(reduction_mapping) = 0
    /\ rpc' = "raised"
    /\ UNCHANGED <<input_string, original_translation_mapping, reduction_mapping,
                   cascading_keys, new_keys, warned, pos, out, tvars, avars, cvars>>

\* line 386, one match of re.sub: the text up to the match is copied, the
\* match is replaced, and the search goes on after the match
ReduceSubMatch ==
    /\ rpc = "sub"
    /\ Len(reduction_mapping) > 0
    /\ NextMatchPos(reduction_mapping, input_string, pos) >= 0
    /\ LET q == NextMatchPos(reduction_mapping, input_string, pos)
           i == FirstRuleAt(reduction_mapping, input_string, q)
       IN /\ out' = out \o Slice(input_string, pos, q) \o Replacement(reduction_mapping, i)
          /\ pos' = q + Len(reduction_mapping[i].k)
    /\ UNCHANGED <<input_string, original_translation_mapping, reduction_mapping,
                   cascading_keys, new_keys, warned, rpc, tvars, avars, cvars>>

\* line 386, no further match: the rest is copied and the string returned
ReduceSubReturn ==
    /\ rpc = "sub"
    /\ Len(reduction_mapping) > 0
    /\ NextMatchPos(reduction_mapping, input_string, pos) < 0
    /\ out' = out \o Slice(input_string, pos, Len(input_string))
    /\ pos' = Len(input_string)
    /\ rpc' = "done"
    /\ UNCHANGED <<input_string, original_translation_mapping, reduction_mapping,
                   cascading_keys, new_keys, warned, tvars, avars, cvars>>

ReduceNext ==
    \/ ReduceCascadeCheck
    \/ ReduceExtraKeyCheck
    \/ ReduceSubEmptyPattern
    \/ ReduceSubMatch
    \/ ReduceSubReturn

SpecReduce == ReduceInit /\ [][ReduceNext]_vars

(***************************************************************************)
(* convert(s0, c0, c1, language, post_conversion_mapping) and ipa2timit.   *)
(*                                                                         *)
(* A code and a language are strings; the language None is the value None  *)
(* below.  An optional dict is <<>> for None and <<m>> for the dict m.  A  *)
(* member of the Phonecodes enumeration is its value, a pair or a triple.  *)
(* convert calls the three functions above: it sets their arguments and    *)
(* their position, they run, and convert goes on from their result.        *)
(***************************************************************************)
MaxS0 == 2           \* longest input string of convert

None == "None"

\* line 38
CODES == {"ipa", "arpabet", "xsampa", "disc", "callhome", "buckeye", "timit"}

\* the codes a caller passes: the known ones and one that is not known
CodePool == CODES \cup {"bogus"}

\* the languages a caller passes: none, languages with registry entries, and
\* one of LANGUAGES (line 39) that no registry entry names
LanguagePool == {None, "eng", "nld", "arz", "cmn", "spa", "deu"}

\* the values of the members of Phonecodes with TIMIT also an output code
RegistryWithIpa2Timit ==
    { <<"ipa", "xsampa">>, <<"xsampa", "ipa">>,
      <<"disc", "ipa">>, <<"disc", "ipa", "nld">>, <<"disc", "ipa", "eng">>,
      <<"ipa", "disc">>,
      <<"callhome", "ipa", "arz">>, <<"callhome", "ipa", "cmn">>,
      <<"callhome", "ipa", "spa">>,
      <<"ipa", "callhome", "arz">>, <<"ipa", "callhome", "cmn">>,
      <<"ipa", "callhome", "spa">>,
      <<"arpabet", "ipa">>, <<"ipa", "arpabet">>,
      <<"timit", "ipa">>, <<"ipa", "timit">>,
      <<"buckeye", "ipa">>, <<"ipa", "buckeye">> }

\* the values of the members of Phonecodes, lines 48-75
Registry ==
    { <<"ipa", "xsampa">>, <<"xsampa", "ipa">>,
      <<"disc", "ipa">>, <<"disc", "ipa", "nld">>, <<"disc", "ipa", "eng">>,
      <<"ipa", "disc">>,
      <<"callhome", "ipa", "arz">>, <<"callhome", "ipa", "cmn">>,
      <<"callhome", "ipa", "spa">>,
      <<"ipa", "callhome", "arz">>, <<"ipa", "callhome", "cmn">>,
      <<"ipa", "callhome", "spa">>,
      <<"arpabet", "ipa">>, <<"ipa", "arpabet">>,
      <<"timit", "ipa">>,
      <<"buckeye", "ipa">>, <<"ipa", "buckeye">> }

\* as_member trying the pair before the triple; <<>> stands for the ValueError
AsMemberPairFirst(in_code, out_code, lang) ==
    IF <<in_code, out_code>> \in Registry THEN <<in_code, out_code>>
    ELSE IF <<in_code, out_code, lang>> \in Registry THEN <<in_code, out_code, lang>>
    ELSE <<>>

\* Phonecodes.as_member, lines 82-94; <<>> stands for the ValueError of line 92
AsMember(in_code, out_code, lang) ==
    IF <<in_code, out_code, lang>> \in Registry THEN <<in_code, out_code, lang>>
    ELSE IF <<in_code, out_code>> \in Registry THEN <<in_code, out_code>>
    ELSE <<>>

\* the characters of the strings a caller passes
CAlphabet == {"a", "A", "1", " "}

\* stand-ins for the tables of phonecode_tables.py: a vowel, a stress or tone
\* mark and the space, keyed in upper case, in lower case, and from IPA
UpperKeyedTable == (<<"A">> :> <<"a">>) @@ (<<"1">> :> <<"1">>) @@ (<<" ">> :> <<" ">>)

LowerKeyedTable == (<<"a">> :> <<"a">>) @@ (<<"1">> :> <<"1">>) @@ (<<" ">> :> <<" ">>)

FromIpaTable == (<<"a">> :> <<"A">>) @@ (<<"1">> :> <<"1">>) @@ (<<" ">> :> <<" ">>)

\* the members whose input is upper-cased, line 334
UpperCased == {<<"arpabet", "ipa">>, <<"buckeye", "ipa">>, <<"timit", "ipa">>}

\* _phonecode_lookup, lines 98-122: every member has a table
PhonecodeLookup(e) ==
    IF e \in UpperCased THEN UpperKeyedTable
    ELSE IF e[2] = "ipa" THEN LowerKeyedTable
    ELSE FromIpaTable

\* str.upper() on one character and on a string
UpperChar(c) == IF c = "a" THEN "A" ELSE c

Upper(x) == [i \in 1..Len(x) |-> UpperChar(x[i])]

\* the x for which x in str holds: the substrings of str, the empty one included
StrMembers(str) == {Slice(str, i, j) : i \in 0..Len(str), j \in 0..Len(str)}

\* stand-ins for _ipa_stressmarkers, _ipa_tones, _ipa_vowels, _callhome_vowels
\* and _arpabet_vowels of phonecode_tables.py
ipa_stressmarkers == {<<"1">>}

ipa_tones == {<<"1">>}

ipa_vowels == {<<"a">>}

callhome_vowels == {<<"A">>}

arpabet_vowels == {<<"A">>}

\* the keys of _tone_stress_settings, lines 137-163
ToneStressMembers ==
    { <<"callhome", "ipa", "arz">>, <<"callhome", "ipa", "cmn">>,
      <<"callhome", "ipa", "spa">>,
      <<"ipa", "callhome", "arz">>, <<"ipa", "callhome", "cmn">>,
      <<"ipa", "callhome", "spa">>,
      <<"arpabet", "ipa">>, <<"ipa", "arpabet">> }

AttachStressTonesConfig(tn, vw, step, cd) ==
    [tones |-> tn, vowels |-> vw, searchstep |-> step, catdir |-> cd]

\* _tone_stress_settings, lines 137-163
ToneStressSettings(e) ==
    CASE e = <<"callhome", "ipa", "arz">> ->
             AttachStressTonesConfig(ipa_stressmarkers, ipa_vowels, -1, -1)
      [] e = <<"callhome", "ipa", "cmn">> ->
             AttachStressTonesConfig(ipa_tones, ipa_vowels, -1, 1)
      [] e = <<"callhome", "ipa", "spa">> ->
             AttachStressTonesConfig(ipa_stressmarkers, ipa_vowels, -1, -1)
      [] e = <<"ipa", "callhome", "arz">> ->
             AttachStressTonesConfig(StrMembers(<<"0", "1", "2">>), callhome_vowels, 1, 1)
      [] e = <<"ipa", "callhome", "cmn">> ->
             AttachStressTonesConfig(StrMembers(<<"0", "1", "2", "3", "4", "5">>),
                                     callhome_vowels, -1, 1)
      [] e = <<"ipa", "callhome", "spa">> ->
             AttachStressTonesConfig(StrMembers(<<"0", "1", "2">>), callhome_vowels, 1, 1)
      [] e = <<"arpabet", "ipa">> ->
             AttachStressTonesConfig(ipa_stressmarkers, ipa_vowels, -1, -1)
      [] e = <<"ipa", "arpabet">> ->
             AttachStressTonesConfig(StrMembers(<<"0", "1", "2">>), arpabet_vowels, 1, 1)

\* "".join(x), line 345
RECURSIVE Join(_)
Join(x) == IF x = <<>> THEN <<>> ELSE Head(x) \o Join(Tail(x))

\* str.strip(), line 351: the white space at both ends is removed
RECURSIVE LStrip(_)
LStrip(x) == IF x # <<>> /\ Head(x) = " " THEN LStrip(Tail(x)) ELSE x

Strip(x) == Reverse(LStrip(Reverse(LStrip(x))))

\* the reduction maps a caller passes: None, the empty dict, and a dict that
\* rewrites one symbol and deletes another
MappingPool ==
    { <<>>, << <<>> >>, << <<Rule(<<"a">>, <<"e">>), Rule(<<"A">>, <<>>)>> >> }

\* a call of convert, or of ipa2timit, whose signature has no codes
ConvertInit ==
    /\ TranslateIdle
    /\ AttachIdle
    /\ ReduceIdle
    /\ entry \in {"convert", "ipa2timit"}
    /\ s0 \in Strs(CAlphabet, MaxS0)
    /\ IF entry = "convert"
       THEN c0 \in CodePool /\ c1 \in CodePool
       ELSE c0 = "" /\ c1 = ""
    /\ language \in LanguagePool
    /\ post_conversion_mapping \in MappingPool
    /\ phonecode_enum = <<>>
    /\ translation_mapping = <<>>
    /\ conv_input_string = <<>>
    /\ mapped_string = <<>>
    /\ final_string = <<>>
    /\ ran = <<>>
    /\ result = <<>>
    /\ cpc = "call"

\* ipa2timit, lines 281-284
Ipa2Timit ==
    /\ entry = "ipa2timit"
    /\ cpc = "call"
    /\ cpc' = "raised"
    /\ UNCHANGED <<entry, s0, c0, c1, language, post_conversion_mapping, phonecode_enum,
                   translation_mapping, conv_input_string, mapped_string, final_string,
                   ran, result, tvars, avars, rvars>>

\* line 325, _verify_code(c0), lines 302-304
ConvertVerifyC0 ==
    /\ entry = "convert"
    /\ cpc = "call"
    /\ cpc' = IF c0 \notin CODES THEN "raised" ELSE "verify1"
    /\ UNCHANGED <<entry, s0, c0, c1, language, post_conversion_mapping, phonecode_enum,
                   translation_mapping, conv_input_string, mapped_string, final_string,
                   ran, result, tvars, avars, rvars>>

\* line 326 left out: the output code is not verified
ConvertVerifyC1Skipped ==
    /\ cpc = "verify1"
    /\ cpc' = "resolve"
    /\ UNCHANGED <<entry, s0, c0, c1, language, post_conversion_mapping, phonecode_enum,
                   translation_mapping, conv_input_string, mapped_string, final_string,
                   ran, result, tvars, avars, rvars>>

\* line 326, _verify_code(c1), lines 302-304
ConvertVerifyC1 ==
    /\ cpc = "verify1"
    /\ cpc' = IF c1 \notin CODES THEN "raised" ELSE "resolve"
    /\ UNCHANGED <<entry, s0, c0, c1, language, post_conversion_mapping, phonecode_enum,
                   translation_mapping, conv_input_string, mapped_string, final_string,
                   ran, result, tvars, avars, rvars>>

\* line 329
ConvertAsMember ==
    /\ cpc = "resolve"
    /\ ran' = Append(ran, "as_member")
    /\ phonecode_enum' = AsMember(c0, c1, language)
    /\ cpc' = IF phonecode_enum' = <<>> THEN "raised" ELSE "lookup"
    /\ UNCHANGED <<entry, s0, c0, c1, language, post_conversion_mapping,
                   translation_mapping, conv_input_string, mapped_string, final_string,
                   result, tvars, avars, rvars>>

\* lines 332-335
ConvertLookup ==
    /\ cpc = "lookup"
    /\ ran' = Append(ran, "lookup")
    /\ translation_mapping' = PhonecodeLookup(phonecode_enum)
    /\ conv_input_string' = IF phonecode_enum \in UpperCased THEN Upper(s0) ELSE s0
    /\ cpc' = "translate"
    /\ UNCHANGED <<entry, s0, c0, c1, language, post_conversion_mapping, phonecode_enum,
                   mapped_string, final_string, result, tvars, avars, rvars>>

\* line 336, the call of translate_string
ConvertCallTranslate ==
    /\ cpc = "translate"
    /\ ran' = Append(ran, "translate")
    /\ s' = conv_input_string
    /\ d' = translation_mapping
    /\ pc' = "start"
    /\ cpc' = "translating"
    /\ UNCHANGED <<maxsym, lattice, n, tl, translated>>
    /\ UNCHANGED <<entry, s0, c0, c1, language, post_conversion_mapping, phonecode_enum,
                   translation_mapping, conv_input_string, mapped_string, final_string,
                   result, avars, rvars>>

\* line 336, translate_string has returned or raised
ConvertTranslateReturned ==
    /\ cpc = "translating"
    /\ pc \in {"done", "raised"}
    /\ mapped_string' = IF pc = "done" THEN tl ELSE mapped_string
    /\ cpc' = IF pc = "done" THEN "attach" ELSE "raised"
    /\ UNCHANGED <<entry, s0, c0, c1, language, post_conversion_mapping, phonecode_enum,
                   translation_mapping, conv_input_string, final_string,
                   ran, result, tvars, avars, rvars>>

\* lines 339-343, the call of attach_tones_to_vowels
ConvertCallAttach ==
    /\ cpc = "attach"
    /\ phonecode_enum \in ToneStressMembers
    /\ ran' = Append(ran, "attach")
    /\ LET stress_config == ToneStressSettings(phonecode_enum)
       IN /\ il' = mapped_string
          /\ tones' = stress_config.tones
          /\ vowels' = stress_config.vowels
          /\ searchstep' = stress_config.searchstep
          /\ catdir' = stress_config.catdir
    /\ apc' = "start"
    /\ cpc' = "attaching"
    /\ UNCHANGED <<ol, v, t, org, visited, abandoned, merges>>
    /\ UNCHANGED <<entry, s0, c0, c1, language, post_conversion_mapping, phonecode_enum,
                   translation_mapping, conv_input_string, mapped_string, final_string,
                   result, tvars, rvars>>

\* line 339 when the member has no tone or stress configuration
ConvertSkipAttach ==
    /\ cpc = "attach"
    /\ phonecode_enum \notin ToneStressMembers
    /\ cpc' = "join"
    /\ UNCHANGED <<entry, s0, c0, c1, language, post_conversion_mapping, phonecode_enum,
                   translation_mapping, conv_input_string, mapped_string, final_string,
                   ran, result, tvars, avars, rvars>>

\* line 341, attach_tones_to_vowels has returned
ConvertAttachReturned ==
    /\ cpc = "attaching"
    /\ apc = "done"
    /\ mapped_string' = ol
    /\ cpc' = "join"
    /\ UNCHANGED <<entry, s0, c0, c1, language, post_conversion_mapping, phonecode_enum,
                   translation_mapping, conv_input_string, final_string,
                   ran, result, tvars, avars, rvars>>

\* line 345
ConvertJoin ==
    /\ cpc = "join"
    /\ final_string' = Join(mapped_string)
    /\ cpc' = "reduce"
    /\ UNCHANGED <<entry, s0, c0, c1, language, post_conversion_mapping, phonecode_enum,
                   translation_mapping, conv_input_string, mapped_string,
                   ran, result, tvars, avars, rvars>>

\* lines 348-349, the call of _post_process_reduction
ConvertCallReduce ==
    /\ cpc = "reduce"
    /\ post_conversion_mapping # <<>>
    /\ ran' = Append(ran, "reduce")
    /\ input_string' = final_string
    /\ original_translation_mapping' = translation_mapping
    /\ reduction_mapping' = post_conversion_mapping[1]
    /\ rpc' = "start"
    /\ cpc' = "reducing"
    /\ UNCHANGED <<cascading_keys, new_keys, warned, pos, out>>
    /\ UNCHANGED <<entry, s0, c0, c1, language, post_conversion_mapping, phonecode_enum,
                   translation_mapping, conv_input_string, mapped_string, final_string,
                   result, tvars, avars>>

\* line 348 when post_conversion_mapping is None
ConvertSkipReduce ==
    /\ cpc = "reduce"
    /\ post_conversion_mapping = <<>>
    /\ cpc' = "strip"
    /\ UNCHANGED <<entry, s0, c0, c1, language, post_conversion_mapping, phonecode_enum,
                   translation_mapping, conv_input_string, mapped_string, final_string,
                   ran, result, tvars, avars, rvars>>

\* line 349, _post_process_reduction has returned or raised
ConvertReduceReturned ==
    /\ cpc = "reducing"
    /\ rpc \in {"done", "raised"}
    /\ final_string' = IF rpc = "done" THEN out ELSE final_string
    /\ cpc' = IF rpc = "done" THEN "strip" ELSE "raised"
    /\ UNCHANGED <<entry, s0, c0, c1, language, post_conversion_mapping, phonecode_enum,
                   translation_mapping, conv_input_string, mapped_string,
                   ran, result, tvars, avars, rvars>>

\* line 351
ConvertReturn ==
    /\ cpc = "strip"
    /\ result' = <<Strip(final_string)>>
    /\ cpc' = "returned"
    /\ UNCHANGED <<entry, s0, c0, c1, language, post_conversion_mapping, phonecode_enum,
                   translation_mapping, conv_input_string, mapped_string, final_string,
                   ran, tvars, avars, rvars>>

ConvertNext ==
    \/ Ipa2Timit
    \/ ConvertVerifyC0
    \/ ConvertVerifyC1
    \/ ConvertAsMember
    \/ ConvertLookup
    \/ ConvertCallTranslate
    \/ ConvertTranslateReturned
    \/ ConvertCallAttach
    \/ ConvertSkipAttach
    \/ ConvertAttachReturned
    \/ ConvertJoin
    \/ ConvertCallReduce
    \/ ConvertSkipReduce
    \/ ConvertReduceReturned
    \/ ConvertReturn
    \/ TranslateNext
    \/ AttachNext
    \/ ReduceNext

SpecConvert == ConvertInit /\ [][ConvertNext]_vars

(***************************************************************************)
(* The functions together: a run is a call of one of them.                 *)
(***************************************************************************)
Init == TranslateInit \/ AttachInit \/ ReduceInit \/ ConvertInit

Next == ConvertNext

Spec == Init /\ [][Next]_vars

(***************************************************************************)
(* Properties of _post_process_reduction.                                  *)
(***************************************************************************)
\* some key of the map occurs in str at position q
SomeKeyAt(m, str, q) ==
    \E j \in 1..Len(m) :
        q + Len(m[j].k) <= Len(str) /\ SubSeq(str, q + 1, q + Len(m[j].k)) = m[j].k

\* the earliest-declared key of the map that occurs in str at position q
EarliestKeyAt(m, str, q) ==
    CHOOSE j \in 1..Len(m) :
        /\ q + Len(m[j].k) <= Len(str) /\ SubSeq(str, q + 1, q + Len(m[j].k)) = m[j].k
        /\ \A i \in 1..(j - 1) :
              ~(q + Len(m[i].k) <= Len(str) /\ SubSeq(str, q + 1, q + Len(m[i].k)) = m[i].k)

IsKey(m, seg) == \E j \in 1..Len(m) : m[j].k = seg

ValueOf(m, seg) == m[CHOOSE j \in 1..Len(m) : m[j].k = seg].v

\* the text that a split of str into matched keys and copied characters gives
RECURSIVE Render(_, _, _, _)
Render(m, str, c, i) ==
    IF i > Len(c) THEN <<>>
    ELSE LET seg == Segment(str, c, i)
         IN (IF IsKey(m, seg) THEN ValueOf(m, seg) ELSE seg) \o Render(m, str, c, i + 1)

\* a split of str in which every segment is a key, or one character at a
\* position where no key occurs
SinglePassSplit(m, str, c) ==
    \A i \in 1..Len(c) :
        LET seg == Segment(str, c, i)
            start == SumSeq(SubSeq(c, 1, i - 1))
        IN IsKey(m, seg) \/ (Len(seg) = 1 /\ ~SomeKeyAt(m, str, start))

\* C7: the result is the input cut once, left to right, into non-overlapping
\* segments, each a key replaced by its value or a single character that no
\* key matches, copied unchanged; the values are not matched again, so
\* {"a": "b", "b": "c"} turns "a" into "b".
ReduceSinglePass ==
    /\ rpc = "done" =>
           \E c \in Comps(Len(input_string)) :
               /\ SinglePassSplit(reduction_mapping, input_string, c)
               /\ out = Render(reduction_mapping, input_string, c, 1)
    /\ (/\ rpc = "done"
        /\ reduction_mapping = <<Rule(<<"a">>, <<"b">>), Rule(<<"b">>, <<"c">>)>>
        /\ input_string = <<"a">>) => out = <<"b">>

\* {"a": "b", "b": "c"} has turned "a" into "b"
ReduceSinglePassWitness ==
    /\ rpc = "done"
    /\ reduction_mapping = <<Rule(<<"a">>, <<"b">>), Rule(<<"b">>, <<"c">>)>>
    /\ input_string = <<"a">>
    /\ out = <<"b">>

\* the leftmost position from p on where some key occurs
LeftmostKeyPos(m, str, p) ==
    CHOOSE q \in p..Len(str) :
        SomeKeyAt(m, str, q) /\ \A r \in p..(q - 1) : ~SomeKeyAt(m, str, r)

\* C8, the step: where keys match, the earliest-declared one is applied
EarliestKeyApplied ==
    (/\ rpc = "sub"
     /\ \E q \in pos..Len(input_string) : SomeKeyAt(reduction_mapping, input_string, q))
    => LET q == LeftmostKeyPos(reduction_mapping, input_string, pos)
           j == EarliestKeyAt(reduction_mapping, input_string, q)
       IN /\ out' = out \o SubSeq(input_string, pos + 1, q) \o reduction_mapping[j].v
          /\ pos' = q + Len(reduction_mapping[j].k)

\* C8, the examples: {"a": "x", "b": "y", "ab": "z"} turns "abc" into "xyc",
\* and the key "." matches the character "." only
EarliestKeyExamples ==
    /\ (/\ rpc = "done"
        /\ reduction_mapping = <<Rule(<<"a">>, <<"x">>), Rule(<<"b">>, <<"y">>),
                                  Rule(<<"a", "b">>, <<"z">>)>>
        /\ input_string = <<"a", "b", "c">>) => out = <<"x", "y", "c">>
    /\ (/\ rpc = "done"
        /\ reduction_mapping = <<Rule(<<".">>, <<"x">>), Rule(<<"a">>, <<"b">>)>>
        /\ input_string = <<"a", ".">>) => out = <<"b", "x">>

\* C8: of the keys that match at a position the one declared earliest is
\* applied, even when a later one is longer; keys match literally.
ReduceEarliestKeyWins ==
    /\ [][EarliestKeyApplied]_vars
    /\ []EarliestKeyExamples

\* "a" was applied at position 0 of "abc" although "ab" matches there too
ReduceEarliestKeyWitness ==
    /\ rpc = "sub"
    /\ reduction_mapping = <<Rule(<<"a">>, <<"x">>), Rule(<<"b">>, <<"y">>),
                              Rule(<<"a", "b">>, <<"z">>)>>
    /\ input_string = <<"a", "b", "c">>
    /\ pos = 1
    /\ out = <<"x">>

\* C9 as stated: _post_process_reduction never raises, whatever the map and
\* whatever the two checks find; it returns the substituted string.
ReduceNeverFails ==
    /\ rpc # "raised"
    /\ rpc = "done" =>
           \E c \in Comps(Len(input_string)) :
               out = Render(reduction_mapping, input_string, c, 1)

\* the pairs of rule numbers that cascade: i before j, the value of i not
\* empty and inside the key of j
CascadingPairs(m) ==
    {ij \in (1..Len(m)) \X (1..Len(m)) :
        /\ ij[1] < ij[2]
        /\ m[ij[1]].v # <<>>
        /\ \E a, b \in 0..Len(m[ij[2]].k) :
              a <= b /\ SubSeq(m[ij[2]].k, a + 1, b) = m[ij[1]].v}

RuleOfKey(m, key) == CHOOSE j \in 1..Len(m) : m[j].k = key

\* C10: the list returned holds exactly the pairs (k1, k2) with k1 declared
\* before k2, the value of k1 not empty and a substring of k2, each once, in
\* the map order of k1 and then of k2; {"a": "b", "bc": "d"} gives
\* [("a", "bc")] and {"a": "x", "b": "y"} gives [].
CascadingKeysExact ==
    rpc \in {"extra", "sub", "done", "raised"} =>
        LET m == reduction_mapping
            ck == cascading_keys
        IN /\ Len(ck) = Cardinality(CascadingPairs(m))
           /\ \A a \in 1..Len(ck) :
                 \E ij \in CascadingPairs(m) : ck[a] = <<m[ij[1]].k, m[ij[2]].k>>
           /\ \A a, b \in 1..Len(ck) :
                 a < b =>
                     LET i1 == RuleOfKey(m, ck[a][1])
                         j1 == RuleOfKey(m, ck[a][2])
                         i2 == RuleOfKey(m, ck[b][1])
                         j2 == RuleOfKey(m, ck[b][2])
                     IN i1 < i2 \/ (i1 = i2 /\ j1 < j2)
           /\ m = <<Rule(<<"a">>, <<"b">>), Rule(<<"b", "c">>, <<"d">>)>>
                 => ck = <<<<<<"a">>, <<"b", "c">>>>>>
           /\ m = <<Rule(<<"a">>, <<"x">>), Rule(<<"b">>, <<"y">>)>> => ck = <<>>

\* three cascading pairs were found, in map order
CascadingKeysWitness ==
    /\ rpc = "extra"
    /\ reduction_mapping = <<Rule(<<"a">>, <<"b">>), Rule(<<"b">>, <<"b">>),
                              Rule(<<"a", "b">>, <<"x">>)>>
    /\ cascading_keys = << <<<<"a">>, <<"b">>>>, <<<<"a">>, <<"a", "b">>>>,
                           <<<<"b">>, <<"a", "b">>>> >>

(***************************************************************************)
(* Properties of convert, Phonecodes.as_member and ipa2timit.              *)
(***************************************************************************)
\* convert was called with an input code or an output code outside CODES
InvalidCode == entry = "convert" /\ (c0 \notin CODES \/ c1 \notin CODES)

\* with an invalid code, convert is in one of the two verifications or has
\* raised, and nothing else has run or been produced; a call that has raised
\* has no returned string, and a string is only there once convert returned
ConvertInvalidCodeState ==
    /\ InvalidCode =>
          /\ cpc \in {"call", "verify1", "raised"}
          /\ c0 \notin CODES => cpc \in {"call", "raised"}
          /\ ran = <<>>
          /\ phonecode_enum = <<>>
          /\ translation_mapping = <<>>
          /\ mapped_string = <<>>
          /\ final_string = <<>>
          /\ pc = "idle" /\ apc = "idle" /\ rpc = "idle"
          /\ result = <<>>
    /\ cpc = "raised" => result = <<>>
    /\ result # <<>> => cpc = "returned"

\* the verification of an invalid code raises
ConvertInvalidCodeStep ==
    /\ InvalidCode /\ cpc = "call" /\ c0 \notin CODES => cpc' = "raised"
    /\ InvalidCode /\ cpc = "verify1" => cpc' = "raised"

\* C11: convert raises whenever the input code or the output code is not in
\* CODES, before any registry resolution, table lookup, translation,
\* reattachment or reduction runs, and no call of convert both raises and
\* yields a converted string, partial or not.
ConvertInvalidCodeFailsFirst ==
    []ConvertInvalidCodeState /\ [][ConvertInvalidCodeStep]_vars

\* convert has raised for a known input code and an unknown output code, with
\* a string to convert and a reduction map supplied
ConvertInvalidCodeWitness ==
    /\ entry = "convert"
    /\ cpc = "raised"
    /\ c0 \in CODES
    /\ c1 \notin CODES
    /\ s0 # <<>>
    /\ post_conversion_mapping # <<>>
    /\ ran = <<>>

\* some registry entry is exactly the triple (c0, c1, language)
TripleRegistered ==
    \E e \in Registry : Len(e) = 3 /\ e[1] = c0 /\ e[2] = c1 /\ e[3] = language

\* some registry entry is exactly the pair (c0, c1)
PairRegistered ==
    \E e \in Registry : Len(e) = 2 /\ e[1] = c0 /\ e[2] = c1

\* as_member has been called by convert
AsMemberCalled == Len(ran) >= 1 /\ ran[1] = "as_member"

\* as_member raised: convert ended right after calling it
AsMemberRaised == AsMemberCalled /\ cpc = "raised" /\ ran = <<"as_member">>

\* C12: as_member resolves to the entry that is the triple (in_code,
\* out_code, language) when there is one, otherwise to the entry that is the
\* pair (in_code, out_code), and raises exactly when neither is registered: so
\* callhome/ipa, registered with languages only, raises for a missing or an
\* unregistered language, and a pair registered without language resolves for
\* every language argument.
AsMemberTripleThenPair ==
    AsMemberCalled =>
        /\ TripleRegistered => phonecode_enum = <<c0, c1, language>>
        /\ ~TripleRegistered /\ PairRegistered => phonecode_enum = <<c0, c1>>
        /\ AsMemberRaised <=> (~TripleRegistered /\ ~PairRegistered)
        /\ AsMemberRaised <=> phonecode_enum = <<>>
        /\ c0 = "callhome" /\ c1 = "ipa" /\ language \notin {"arz", "cmn", "spa"}
              => AsMemberRaised
        /\ {c0, c1} = {"ipa", "callhome"} /\ language \in {"arz", "cmn", "spa"}
              => phonecode_enum = <<c0, c1, language>>
        /\ PairRegistered => ~AsMemberRaised
        /\ c0 = "disc" /\ c1 = "ipa" /\ language \notin {"nld", "eng"}
              => phonecode_enum = <<"disc", "ipa">>

\* disc to ipa is registered both without language and for Dutch: the call
\* for Dutch has resolved to the triple
AsMemberTripleWitness ==
    /\ AsMemberCalled
    /\ c0 = "disc"
    /\ c1 = "ipa"
    /\ language = "nld"
    /\ phonecode_enum = <<"disc", "ipa", "nld">>
    /\ cpc = "returned"

\* a call for the conversion from IPA to TIMIT: ipa2timit is at its call or
\* has raised; convert has got no further than as_member, and has no string
Ipa2TimitState ==
    /\ entry = "ipa2timit" =>
          /\ cpc \in {"call", "raised"}
          /\ ran = <<>>
          /\ result = <<>>
    /\ entry = "convert" /\ c0 = "ipa" /\ c1 = "timit" =>
          /\ cpc \in {"call", "verify1", "resolve", "raised"}
          /\ ran \in {<<>>, <<"as_member">>}
          /\ phonecode_enum = <<>>
          /\ result = <<>>

\* ipa2timit raises at once, and as_member raises for (ipa, timit, language)
Ipa2TimitStep ==
    /\ entry = "ipa2timit" /\ cpc = "call" => cpc' = "raised"
    /\ entry = "convert" /\ c0 = "ipa" /\ c1 = "timit" /\ cpc = "resolve"
          => cpc' = "raised"

\* C13: the conversion from IPA to TIMIT always fails: ipa2timit raises for
\* every string, language and post-conversion mapping, and convert(s, "ipa",
\* "timit", language, mapping) raises for every s, language and mapping and
\* never returns a string.
Ipa2TimitAlwaysFails == []Ipa2TimitState /\ [][Ipa2TimitStep]_vars

\* convert has raised for ipa to timit with a string, a language and a
\* reduction map supplied
Ipa2TimitWitness ==
    /\ entry = "convert"
    /\ c0 = "ipa"
    /\ c1 = "timit"
    /\ cpc = "raised"
    /\ s0 # <<>>
    /\ language = "eng"
    /\ post_conversion_mapping # <<>>

====
